---- MODULE Spec2Model ----
(***************************************************************************)
(* A model of the request-interception pipeline of moorara/observer:       *)
(* the HTTP middleware (ohttp.Middleware.Wrap), the HTTP client            *)
(* (ohttp.Client.Do) and the gRPC server/client interceptors (ogrpc).      *)
(*                                                                         *)
(* A Go string is a sequence of characters: "" is <<>>.  Every call of a   *)
(* wrapper is split at the point where the wrapped handler/invoker runs:   *)
(* an Enter action (the code before the wrapped call) and an Exit action   *)
(* (the outcome of the wrapped call and the code after it, deferred calls  *)
(* included).  Calls of different goroutines interleave between the two.   *)
(***************************************************************************)
EXTENDS Integers, Sequences, FiniteSets, TLC

\* ------------------------------------------------------------------ bounds
\* number of calls (goroutines) of one behaviour
MaxCalls == 2
\* number of WriteHeader calls a handler makes
MaxWrites == 2
\* number of hops of a call chain
MaxHops == 3

Calls == 1..MaxCalls

\* ------------------------------------------------------------ Go strings
EmptyString == <<>>

\* correlation ids a peer may send
IdA == <<"a">>
IdB == <<"b">>

\* uuid.New().String(): a fresh non-empty id, different for every call of New
NewUUID(n) == [i \in 1..(n + 2) |-> "u"]

\* values of one header / metadata key: absent, an empty first value, ...
HeaderValues == { <<>>, <<EmptyString>>, <<IdA>>, <<EmptyString, IdB>>, <<IdA, IdB>> }

\* http.Header.Get: the first value of the key, "" when the key is absent
HeaderGet(vals) == IF Len(vals) > 0 THEN vals[1] ELSE EmptyString

\* http.Header.Set / metadata.MD.Set: the key holds exactly this value
HeaderSet(v) == <<v>>

\* a request context as far as the uuid key goes: (value, ok)
NoUUID == [ok |-> FALSE, uuid |-> EmptyString]
ContextWithUUID(uuid) == [ok |-> TRUE, uuid |-> uuid]
UUIDFromContext(ctx) == ctx
Contexts == { NoUUID, ContextWithUUID(EmptyString), ContextWithUUID(IdA) }

\* what a context holds under loggerContextKey: nothing, or the *zap.Logger
\* ContextWithLogger was given, which may be a nil pointer; ok is the outcome
\* of the type assertion val.(*zap.Logger)
NoLogger == [ok |-> FALSE, logger |-> "nil"]
ContextWithLogger(logger) == [ok |-> TRUE, logger |-> logger]
LoggerContexts == {NoLogger, ContextWithLogger("request logger"), ContextWithLogger("nil")}

\* ------------------------------------------------------------ HTTP status
StatusCodes == {200, 404, 500, 600}
StatusInternalServerError == 500

\* responseWriter: the recorded StatusCode/StatusClass, the status the
\* underlying http.ResponseWriter has sent (0: none yet; net/http keeps the
\* first) and the codes its WriteHeader was called with.  StatusClass is a
\* string: "" is <<>>, and fmt.Sprintf("%dxx", n) is <<n, "x", "x">>
newResponseWriter == [StatusCode |-> 0, StatusClass |-> <<>>, sent |-> 0, forwarded |-> <<>>]

UnderlyingWriteHeader(sent, code) == IF sent = 0 THEN code ELSE sent

WriteHeaderKeepsLast(rw, statusCode) ==
    [rw EXCEPT !.sent = UnderlyingWriteHeader(rw.sent, statusCode),
               !.forwarded = Append(rw.forwarded, statusCode),
               !.StatusCode = statusCode,
               !.StatusClass = <<statusCode \div 100, "x", "x">>]
WriteHeader(rw, statusCode) ==
    LET fwd == [rw EXCEPT !.sent = UnderlyingWriteHeader(rw.sent, statusCode),
                          !.forwarded = Append(rw.forwarded, statusCode)]
    IN  IF rw.StatusCode = 0
        THEN [fwd EXCEPT !.StatusCode = statusCode,
                         !.StatusClass = <<statusCode \div 100, "x", "x">>]
        ELSE fwd

\* Write goes to the embedded ResponseWriter, which sends 200 if no header was sent
Write(rw) == [rw EXCEPT !.sent = UnderlyingWriteHeader(rw.sent, 200)]

\* the status of the response once the handler is over: net/http sends 200
\* for a handler that wrote nothing
ResponseStatus(rw) == UnderlyingWriteHeader(rw.sent, 200)

\* ------------------------------------------------------- gRPC method names
\* regexp `/|\.`: the separators of a full method name
IsSeparator(ch) == ch \in {"/", "."}

FirstSeparator(s) ==
    IF \E i \in 1..Len(s) : IsSeparator(s[i])
    THEN CHOOSE i \in 1..Len(s) : IsSeparator(s[i]) /\ \A j \in 1..(i - 1) : ~IsSeparator(s[j])
    ELSE 0

\* regexp.Split(s, n): at most n substrings, the last one the unsplit remainder
RECURSIVE Split(_, _)
Split(s, n) ==
    IF n <= 1 \/ FirstSeparator(s) = 0
    THEN <<s>>
    ELSE <<SubSeq(s, 1, FirstSeparator(s) - 1)>>
             \o Split(SubSeq(s, FirstSeparator(s) + 1, Len(s)), n - 1)

NoEndpoint == [Package |-> EmptyString, Service |-> EmptyString, Method |-> EmptyString]

parseEndpoint(fullMethod) ==
    LET subs == Split(fullMethod, 4)
    IN  IF Len(subs) # 4
        THEN [e |-> NoEndpoint, ok |-> FALSE]
        ELSE [e |-> [Package |-> subs[2], Service |-> subs[3], Method |-> subs[4]], ok |-> TRUE]

\* the full method names the peers call
GetItem == <<"/", "p", ".", "s", "/", "g">>
Health == <<"/", "p", ".", "s", "/", "h">>
\* a service declared without a package: /service/method
NoPackage == <<"/", "s", "/", "g">>
FullMethods == {GetItem, Health, NoPackage}

\* Options.ExcludedMethods of the interceptors under check
ExcludedMethods == << <<"h">> >>

NothingExcluded(e) == FALSE
IsExcluded(e) == \E k \in 1..Len(ExcludedMethods) : e.Method = ExcludedMethods[k]

\* ---------------------------------------------------------------- HTTP urls
\* a path is a sequence of segments; the segment "UUID" stands for a text that
\* Options.IDRegexp matches
URLPaths == { <<"items">>, <<"items", "UUID">> }
Methods == { "GET" }

\* IDRegexp.ReplaceAllString(url, ":id")
Route(url) == [i \in 1..Len(url) |-> IF url[i] = "UUID" THEN ":id" ELSE url[i]]

\* ------------------------------------------------------------------ labels
\* the label set of a gauge measurement, with the instrument it goes to
HTTPLabels(instrument, method, route) == <<instrument, method, route>>
GRPCLabels(instrument, e, stream) == <<instrument, e.Package, e.Service, e.Method, stream>>

\* metric.Int64UpDownCounter.Add with a label set
Add(gauge, labels, delta) ==
    IF labels \in DOMAIN gauge
    THEN [gauge EXCEPT ![labels] = @ + delta]
    ELSE [l \in DOMAIN gauge \cup {labels} |-> IF l = labels THEN delta ELSE gauge[l]]

GaugeValue(gauge, labels) == IF labels \in DOMAIN gauge THEN gauge[labels] ELSE 0

\* what RecordBatch does with instrument.Measurement(value): reqCounter grows
\* by the value, reqDuration (the number of its observations) by one
MeasurementDropped(instrument, value) == instrument
Measurement(instrument, value) == instrument + value

\* ------------------------------------------------- observer: the environment
\* Strings of the observer package are TLA+ strings; "" is the unset variable
\* (os.Getenv returns "" for it).

\* strings.ToLower on the strings of the model that have upper-case letters
ToLower(s) ==
    CASE s = "WARN" -> "warn"
      [] s = "Debug" -> "debug"
      [] s = "DOMAIN" -> "domain"
      [] s = "TOKEN" -> "token"
      [] OTHER -> s

\* strconv.ParseBool: the value, and whether it failed
ParseBool(val) ==
    IF val \in {"1", "t", "T", "TRUE", "true", "True"} THEN [b |-> TRUE, err |-> FALSE]
    ELSE IF val \in {"0", "f", "F", "FALSE", "false", "False"} THEN [b |-> FALSE, err |-> FALSE]
    ELSE [b |-> FALSE, err |-> TRUE]

\* an entry of os.Environ() is a sequence of tokens, "=" being the separator:
\* OBSERVER_TAG_DOMAIN=auth is <<"OBSERVER_TAG_", "DOMAIN", "=", "auth">>
FirstEquals(s) ==
    IF \E i \in 1..Len(s) : s[i] = "="
    THEN CHOOSE i \in 1..Len(s) : s[i] = "=" /\ \A j \in 1..(i - 1) : s[j] # "="
    ELSE 0

\* strings.Split(entry, "="): every substring between the separators
RECURSIVE SplitEquals(_)
SplitEquals(s) ==
    IF FirstEquals(s) = 0
    THEN <<s>>
    ELSE <<SubSeq(s, 1, FirstEquals(s) - 1)>> \o SplitEquals(SubSeq(s, FirstEquals(s) + 1, Len(s)))

HasTagPrefix(key) == Len(key) > 0 /\ key[1] = "OBSERVER_TAG_"
TrimTagPrefix(key) == Tail(key)
LowerTokens(s) == [i \in 1..Len(s) |-> ToLower(s[i])]

\* a map[string]string: nil or a set of <<key, value>> entries
EmptyMap == [nil |-> FALSE, entries |-> {}]
NilTags == [nil |-> TRUE, entries |-> {}]
MapSet(m, k, v) ==
    [nil |-> FALSE, entries |-> {p \in m.entries : p[1] # k} \cup {<<k, v>>}]

\* the loop over os.Environ() of configsFromEnv
RECURSIVE EnvTags(_, _)
EnvTags(environ, tags) ==
    IF environ = <<>> THEN tags
    ELSE LET pair == SplitEquals(Head(environ))
         IN  IF HasTagPrefix(pair[1])
             THEN EnvTags(Tail(environ),
                          MapSet(tags, LowerTokens(TrimTagPrefix(pair[1])), pair[2]))
             ELSE EnvTags(Tail(environ), tags)

\* the environments of the model: nothing set, everything set, odd values
NoEnv ==
    [ OBSERVER_NAME |-> "", OBSERVER_VERSION |-> "", OBSERVER_ENVIRONMENT |-> "",
      OBSERVER_REGION |-> "",
      OBSERVER_LOGGER_ENABLED |-> "", OBSERVER_LOGGER_LEVEL |-> "",
      OBSERVER_PROMETHEUS_ENABLED |-> "",
      OBSERVER_JAEGER_ENABLED |-> "", OBSERVER_JAEGER_AGENT_ENDPOINT |-> "",
      OBSERVER_JAEGER_COLLECTOR_ENDPOINT |-> "", OBSERVER_JAEGER_COLLECTOR_USERNAME |-> "",
      OBSERVER_JAEGER_COLLECTOR_PASSWORD |-> "",
      OBSERVER_OPENTELEMETRY_ENABLED |-> "", OBSERVER_OPENTELEMETRY_COLLECTOR_ADDRESS |-> "",
      Environ |-> << <<"PATH", "=", "/bin">> >> ]

FullEnv ==
    [ OBSERVER_NAME |-> "env-service", OBSERVER_VERSION |-> "0.1.0",
      OBSERVER_ENVIRONMENT |-> "production", OBSERVER_REGION |-> "ca-central-1",
      OBSERVER_LOGGER_ENABLED |-> "true", OBSERVER_LOGGER_LEVEL |-> "debug",
      OBSERVER_PROMETHEUS_ENABLED |-> "true",
      OBSERVER_JAEGER_ENABLED |-> "true", OBSERVER_JAEGER_AGENT_ENDPOINT |-> "env-agent:6831",
      OBSERVER_JAEGER_COLLECTOR_ENDPOINT |-> "http://env-collector",
      OBSERVER_JAEGER_COLLECTOR_USERNAME |-> "env-user",
      OBSERVER_JAEGER_COLLECTOR_PASSWORD |-> "env-password",
      OBSERVER_OPENTELEMETRY_ENABLED |-> "true",
      OBSERVER_OPENTELEMETRY_COLLECTOR_ADDRESS |-> "env-otel:55680",
      Environ |-> << <<"OBSERVER_TAG_", "DOMAIN", "=", "auth">> >> ]

OddEnv ==
    [ NoEnv EXCEPT !.OBSERVER_LOGGER_ENABLED = "yes", !.OBSERVER_LOGGER_LEVEL = "WARN",
                   !.OBSERVER_PROMETHEUS_ENABLED = "false",
                   !.OBSERVER_OPENTELEMETRY_ENABLED = "1",
                   !.Environ = << <<"PATH", "=", "/bin">>,
                                  <<"OBSERVER_TAG_", "TOKEN", "=", "dGVzdA", "=", "=">> >> ]

Envs == {NoEnv, FullEnv, OddEnv}

\* ------------------------------------------------------- observer: configs
configsFromEnv(e) ==
    [ name |-> e.OBSERVER_NAME,
      version |-> e.OBSERVER_VERSION,
      environment |-> e.OBSERVER_ENVIRONMENT,
      region |-> e.OBSERVER_REGION,
      tags |-> EnvTags(e.Environ, EmptyMap),
      loggerEnabled |-> IF e.OBSERVER_LOGGER_ENABLED # ""
                        THEN ParseBool(e.OBSERVER_LOGGER_ENABLED).b ELSE FALSE,
      loggerLevel |-> IF e.OBSERVER_LOGGER_LEVEL = "" THEN "info" ELSE e.OBSERVER_LOGGER_LEVEL,
      prometheusEnabled |-> IF e.OBSERVER_PROMETHEUS_ENABLED # ""
                            THEN ParseBool(e.OBSERVER_PROMETHEUS_ENABLED).b ELSE FALSE,
      jaegerEnabled |-> IF e.OBSERVER_JAEGER_ENABLED # ""
                        THEN ParseBool(e.OBSERVER_JAEGER_ENABLED).b ELSE FALSE,
      jaegerAgentEndpoint |->
          IF e.OBSERVER_JAEGER_AGENT_ENDPOINT = "" /\ e.OBSERVER_JAEGER_COLLECTOR_ENDPOINT = ""
          THEN "localhost:6831" ELSE e.OBSERVER_JAEGER_AGENT_ENDPOINT,
      jaegerCollectorEndpoint |-> e.OBSERVER_JAEGER_COLLECTOR_ENDPOINT,
      jaegerCollectorUserName |-> e.OBSERVER_JAEGER_COLLECTOR_USERNAME,
      jaegerCollectorPassword |-> e.OBSERVER_JAEGER_COLLECTOR_PASSWORD,
      opentelemetryEnabled |-> IF e.OBSERVER_OPENTELEMETRY_ENABLED # ""
                               THEN ParseBool(e.OBSERVER_OPENTELEMETRY_ENABLED).b ELSE FALSE,
      opentelemetryCollectorAddress |->
          IF e.OBSERVER_OPENTELEMETRY_COLLECTOR_ADDRESS = ""
          THEN "localhost:55680" ELSE e.OBSERVER_OPENTELEMETRY_COLLECTOR_ADDRESS,
      opentelemetryCollectorCredentials |-> "nil" ]

\* ------------------------------------------------------- observer: options
\* an Option is the closure its constructor returns: the fields it assigns
WithMetadata(name, version, environment, region, tags) ==
    [ name |-> name, version |-> version, environment |-> environment, region |-> region,
      tags |-> tags ]

WithLogger(level) ==
    [ loggerEnabled |-> TRUE, loggerLevel |-> IF level = "" THEN "info" ELSE level ]

WithPrometheus == [ prometheusEnabled |-> TRUE ]

WithJaeger(agentEndpoint, collectorEndpoint, collectorUserName, collectorPassword) ==
    [ jaegerEnabled |-> TRUE,
      jaegerAgentEndpoint |-> IF agentEndpoint = "" /\ collectorEndpoint = ""
                              THEN "localhost:6831" ELSE agentEndpoint,
      jaegerCollectorEndpoint |-> collectorEndpoint,
      jaegerCollectorUserName |-> collectorUserName,
      jaegerCollectorPassword |-> collectorPassword ]

WithOpenTelemetry(collectorAddress, collectorCredentials) ==
    [ opentelemetryEnabled |-> TRUE,
      opentelemetryCollectorAddress |-> IF collectorAddress = ""
                                        THEN "localhost:55680" ELSE collectorAddress,
      opentelemetryCollectorCredentials |-> collectorCredentials ]

\* opt(&c)
ApplyOptionIgnored(option, c) == c
ApplyOption(option, c) ==
    [f \in DOMAIN c |-> IF f \in DOMAIN option THEN option[f] ELSE c[f]]

\* for _, opt := range opts { opt(&c) }
RECURSIVE ApplyOptions(_, _)
ApplyOptions(options, c) ==
    IF options = <<>> THEN c
    ELSE ApplyOptions(Tail(options), ApplyOption(Head(options), c))

\* the option lists New is called with
OptionLists ==
    { <<>>,
      <<WithLogger("")>>,
      <<WithMetadata("my-service", "0.2.0", "", "", NilTags), WithLogger("Debug"),
        WithPrometheus, WithJaeger("", "", "", "")>>,
      <<WithOpenTelemetry("", "nil")>>,
      <<WithLogger("error"), WithJaeger("", "http://collector", "user", "password"),
        WithLogger("none")>> }

\* ---------------------------------------------------- observer: components
\* zapcore levels
DebugLevel == -1
InfoLevel == 0
WarnLevel == 1
ErrorLevel == 2
\* zapcore.Level(99): nothing is logged
NoneLevel == 99

\* a zap.AtomicLevel is a pointer to the level: NewAtomicLevelAt allocates it,
\* the zero AtomicLevel of a zero zap.Config holds a nil pointer
NilAtomicLevel == [l |-> FALSE, level |-> 0]
NewAtomicLevelAt(level) == [l |-> TRUE, level |-> level]

\* *zap.Config: nil, or a config with its Level
NilConfig == [ptr |-> FALSE, Level |-> NilAtomicLevel]
ZeroConfig == [ptr |-> TRUE, Level |-> NilAtomicLevel]

\* the switch of initLogger on strings.ToLower(c.loggerLevel)
LoggerLevel(loggerLevel) ==
    CASE ToLower(loggerLevel) = "debug" -> DebugLevel
      [] ToLower(loggerLevel) = "info" -> InfoLevel
      [] ToLower(loggerLevel) = "warn" -> WarnLevel
      [] ToLower(loggerLevel) = "error" -> ErrorLevel
      [] OTHER -> NoneLevel

\* the observer New starts from: &observer{name: c.name}
EmptyObserver(c) ==
    [ name |-> c.name,
      logger |-> "nil",
      loggerConfig |-> NilConfig,
      meter |-> "zero",
      promHandler |-> "nil",
      tracer |-> "nil",
      shutdownFuncs |-> <<>>,
      initialFields |-> {},     \* the InitialFields of the logger's config
      jaegerEndpoint |-> <<>>,  \* the endpoint option of the Jaeger pipeline
      collectorAddress |-> "",  \* the address of the OpenTelemetry exporter
      running |-> {} ]          \* the components started and not yet stopped

\* config.InitialFields of initLogger: the metadata that is not "", and the
\* tags; keys and values are token sequences, as those of the tags are
Field(key, value) == IF value # "" THEN {<< <<key>>, <<value>> >>} ELSE {}

InitialFields(c) ==
    Field("logger", c.name) \cup Field("version", c.version)
        \cup Field("environment", c.environment) \cup Field("region", c.region)
        \cup c.tags.entries

\* the switch of initJaeger on the endpoints
JaegerEndpoint(c) ==
    IF c.jaegerAgentEndpoint # "" THEN <<"agent", c.jaegerAgentEndpoint>>
    ELSE IF c.jaegerCollectorEndpoint # ""
    THEN <<"collector", c.jaegerCollectorEndpoint, c.jaegerCollectorUserName,
           c.jaegerCollectorPassword>>
    ELSE <<>>

\* if c.loggerEnabled { ... initLogger(c) ... }
WithInitLogger(o, c) ==
    IF c.loggerEnabled
    THEN [o EXCEPT !.logger = "zap",
                   !.initialFields = InitialFields(c),
                   !.loggerConfig = [ptr |-> TRUE,
                                     Level |-> NewAtomicLevelAt(LoggerLevel(c.loggerLevel))],
                   !.shutdownFuncs = Append(@, "logger"),
                   !.running = @ \cup {"logger"}]
    ELSE o

\* if c.prometheusEnabled { ... initPrometheus(c) ... }
WithInitPrometheus(o, c) ==
    IF c.prometheusEnabled
    THEN [o EXCEPT !.meter = "prometheus", !.promHandler = "prometheus"]
    ELSE o

\* if c.jaegerEnabled { ... initJaeger(c) ... }
WithInitJaeger(o, c) ==
    IF c.jaegerEnabled
    THEN [o EXCEPT !.tracer = "jaeger",
                   !.jaegerEndpoint = JaegerEndpoint(c),
                   !.shutdownFuncs = Append(@, "jaeger"),
                   !.running = @ \cup {"jaeger exporter"}]
    ELSE o

\* if c.opentelemetryEnabled { ... initOpenTelemetry(c) ... }
WithInitOpenTelemetry(o, c) ==
    IF c.opentelemetryEnabled
    THEN [o EXCEPT !.meter = "opentelemetry",
                   !.tracer = "opentelemetry",
                   !.collectorAddress = c.opentelemetryCollectorAddress,
                   !.shutdownFuncs = Append(@, "opentelemetry"),
                   !.running = @ \cup {"trace provider", "otlp exporter", "push controller"}]
    ELSE o

\* "Create noop logger, meter, and/or tracer if they are not created so far"
NoopDefaultsSkipped(o) == o
NoopDefaults(o) ==
    [o EXCEPT !.logger = IF @ = "nil" THEN "nop" ELSE @,
              !.loggerConfig = IF ~@.ptr THEN ZeroConfig ELSE @,
              !.meter = IF @ = "zero" THEN "noop" ELSE @,
              !.promHandler = IF @ = "nil" THEN "not found" ELSE @,
              !.tracer = IF @ = "nil" THEN "noop" ELSE @]

\* the observer New builds from the configs
NewObserver(c) ==
    NoopDefaults(
        WithInitOpenTelemetry(
            WithInitJaeger(
                WithInitPrometheus(
                    WithInitLogger(EmptyObserver(c), c), c), c), c))

\* initPrometheus, initJaeger and initOpenTelemetry panic when the export
\* pipeline or the exporter cannot be created
NewPanics(c, pipelineErr) ==
    pipelineErr /\ (c.prometheusEnabled \/ c.jaegerEnabled \/ c.opentelemetryEnabled)

\* func init(): the no-op singleton
InitialObserver ==
    [ name |-> "",
      logger |-> "nop",
      loggerConfig |-> ZeroConfig,
      meter |-> "noop",
      promHandler |-> "not found",
      tracer |-> "noop",
      shutdownFuncs |-> <<>>,
      initialFields |-> {},
      jaegerEndpoint |-> <<>>,
      collectorAddress |-> "",
      running |-> {} ]

\* if setAsSingleton { singleton = o }
SetSingletonAlways(setAsSingleton, current, o) == o
SetSingleton(setAsSingleton, current, o) == IF setAsSingleton THEN o ELSE current

\* ------------------------------------------------------ observer: Shutdown
\* the operations of a shutdown that can fail: logger.Sync(),
\* traceProvider.Shutdown(ctx) and exporter.Shutdown(ctx)
Fallible == {"logger", "trace provider", "otlp exporter"}

\* a shutdownFunc: the components still running after it, and the error it
\* returns ("nil" for none); failing is the set of operations that fail
ShutdownFunc(name, running, failing) ==
    CASE name = "logger" ->
            IF "logger" \in failing
            THEN [running |-> running, e |-> "logger: sync failed"]
            ELSE [running |-> running \ {"logger"}, e |-> "nil"]
      [] name = "jaeger" ->
            [running |-> running \ {"jaeger exporter"}, e |-> "nil"]
      [] name = "opentelemetry" ->
            IF "trace provider" \in failing
            THEN [running |-> running, e |-> "trace provider: shutdown failed"]
            ELSE IF "otlp exporter" \in failing
            THEN [running |-> running \ {"trace provider"},
                  e |-> "otlp exporter: shutdown failed"]
            ELSE [running |-> running \ {"trace provider", "otlp exporter"}, e |-> "nil"]

\* multierror.Append(err, e): the errors so far and e
AppendKeepsLast(err, e) == <<e>>
MultierrorAppend(err, e) == Append(err, e)

\* the loop of Shutdown over o.shutdownFuncs; st holds the components still
\* running, the callbacks called so far and the errors collected (<<>> is nil)
RECURSIVE ShutdownLoop(_, _, _)
ShutdownLoop(funcs, st, failing) ==
    IF funcs = <<>> THEN st
    ELSE LET r == ShutdownFunc(Head(funcs), st.running, failing)
         IN  ShutdownLoop(Tail(funcs),
                          [running |-> r.running,
                           called |-> Append(st.called, Head(funcs)),
                           err |-> IF r.e # "nil" THEN MultierrorAppend(st.err, r.e)
                                   ELSE st.err],
                          failing)

\* AtomicLevel.SetLevel / AtomicLevel.Level dereference the level pointer
LevelPanics(o) == ~o.loggerConfig.Level.l

\* ------------------------------------------------------------------- state
VARIABLES
    opts,          \* the Options the wrappers were created with
    calls,         \* per call: its inputs, its position and what it has done
    reqGauge,      \* the *_requests_active up-down counter, per label set
    reqCounter,    \* the *_requests_total counter (all label sets)
    reqDuration,   \* number of observations of *_requests_duration
    panicCounter,  \* the handler_panics_total counter
    logs,          \* number of log entries per level
    uuidCount,     \* number of ids uuid.New() has produced
    env,           \* the environment variables of the process
    observers,     \* the observers created so far; the first is the one of init()
    singleton,     \* the observer the package variable singleton points to
    news,          \* the New calls that returned, in order
    levelSet,      \* per observer: the level of its last SetLogLevel call
    result,        \* what the last operation of the observer package returned
    building,      \* the New calls that have not returned yet
    fullName,      \* a full method name handed to parseEndpoint
    parsed         \* what parseEndpoint returned for it

pipeVars == <<opts, calls, reqGauge, reqCounter, reqDuration, panicCounter, logs, uuidCount>>
obsVars == <<env, observers, singleton, news, levelSet, result, building>>
parseVars == <<fullName, parsed>>
vars == <<pipeVars, obsVars, parseVars>>

\* parseEndpoint has not been called
NotParsed == [done |-> FALSE, e |-> NoEndpoint, ok |-> FALSE]

InitParsed(names) ==
    /\ fullName \in names
    /\ parsed = NotParsed

\* what the last operation on the observer package returned
Result(op, o) ==
    [op |-> op, o |-> o, panic |-> FALSE, level |-> 0, called |-> <<>>, err |-> <<>>,
     failing |-> {}, ctx |-> NoLogger, logger |-> "none"]

NoLevelSet == [set |-> FALSE, level |-> 0]

InitObserver(envs) ==
    /\ env \in envs
    /\ observers = <<InitialObserver>>
    /\ singleton = 1
    /\ news = <<>>
    /\ levelSet = <<NoLevelSet>>
    /\ result = Result("init", 1)
    /\ building = {}


Levels == {"debug", "info", "warn", "error"}

ServerSites == {"http_server", "grpc_server_unary", "grpc_server_stream"}
ClientSites == {"http_client", "grpc_client_unary", "grpc_client_stream"}

\* nothing returned (yet)
NoResult == [resp |-> "none", err |-> "none"]

IdleCall ==
    [ pc         |-> "idle",        \* idle, handler (the wrapped call runs), done
      site       |-> "none",
      fullMethod |-> <<>>,          \* the grpc full method name
      labels     |-> <<>>,
      instrumented |-> FALSE,       \* FALSE on the unparseable / excluded paths
      inHeader   |-> <<>>,          \* request-uuid values of the inbound request
      ctxIn      |-> NoUUID,        \* the context the caller passed to a client
      ctx        |-> NoUUID,        \* the context the wrapped call was given
      reqHeader  |-> <<>>,          \* request-uuid values of the request passed on
      respHeader |-> <<>>,          \* request-uuid values of the response header
      rw         |-> newResponseWriter,
      written    |-> <<>>,          \* the codes WriteHeader of rw was called with
      outcome    |-> "none",        \* what the wrapped call did
      wrapped    |-> NoResult,      \* what the wrapped call returned
      resp       |-> "none",        \* the response / stream the wrapper returned
      err        |-> "none",        \* the error the wrapper returned to its caller
      status     |-> 0,             \* the status code of the response on the wire
      recorded   |-> 0,             \* the status code the wrapper recorded and logged
      trace      |-> <<>> ]         \* what the wrapper did for this call, in order

Log(l, level) == [l EXCEPT ![level] = @ + 1]

\* defer span.End(): the span ends when the body of the wrapper is over
SpanEndForgotten(trace) == trace
DeferredSpanEnd(trace) == Append(trace, "span.End")

InitWith(slots) ==
    /\ opts \in [LogInDebugLevel : BOOLEAN]
    /\ calls = [c \in slots |-> IdleCall]
    /\ reqGauge = <<>>
    /\ reqCounter = 0
    /\ reqDuration = 0
    /\ panicCounter = 0
    /\ logs = [l \in Levels |-> 0]
    /\ uuidCount = 0
    /\ InitObserver({NoEnv})
    /\ InitParsed({GetItem})

Init == InitWith(Calls)

\* number of times the wrapper did ev for the call
RECURSIVE Count(_, _)
Count(trace, ev) ==
    IF trace = <<>> THEN 0
    ELSE (IF Head(trace) = ev THEN 1 ELSE 0) + Count(Tail(trace), ev)

\* position of the first ev in the trace, 0 if there is none
Index(trace, ev) ==
    IF \E i \in 1..Len(trace) : trace[i] = ev
    THEN CHOOSE i \in 1..Len(trace) : trace[i] = ev /\ \A j \in 1..(i - 1) : trace[j] # ev
    ELSE 0

\* ------------------------------------------------- ohttp.Middleware.Wrap
\* "Make sure the request has a UUID"
MiddlewareUUIDKeepsEmpty(hdr, n) == HeaderGet(hdr)
MiddlewareUUIDAlwaysNew(hdr, n) == NewUUID(n)
MiddlewareUUID(hdr, n) ==
    IF HeaderGet(hdr) = EmptyString THEN NewUUID(n) ELSE HeaderGet(hdr)

\* the level of the request log line of the middleware
MiddlewareLogLevelStrict(statusCode, debug) ==
    IF statusCode > 500 THEN "error"
    ELSE IF statusCode > 400 THEN "warn"
    ELSE IF debug THEN "debug" ELSE "info"
MiddlewareLogLevel(statusCode, debug) ==
    IF statusCode >= 500 THEN "error"
    ELSE IF statusCode >= 400 THEN "warn"
    ELSE IF debug THEN "debug" ELSE "info"

\* the deferred reqGauge.Add(ctx, -1, ...)
MiddlewareReleaseForgotten(gauge, labels) == gauge
MiddlewareRelease(gauge, labels) == Add(gauge, labels, -1)

\* Wrap, up to the call of the wrapped handler
MiddlewareEnter(c, method, url, hdr) ==
    LET labels == HTTPLabels("incoming_http_requests_active", method, Route(url))
        requestUUID == MiddlewareUUID(hdr, uuidCount)
        \* uuid.New was called iff the id is the new one
        generate == (requestUUID = NewUUID(uuidCount))
    IN  /\ calls[c].pc = "idle"
        /\ reqGauge' = Add(reqGauge, labels, 1)
        /\ uuidCount' = IF generate THEN uuidCount + 1 ELSE uuidCount
        /\ calls' = [calls EXCEPT ![c] =
              [IdleCall EXCEPT
                 !.pc = "handler",
                 !.site = "http_server",
                 !.labels = labels,
                 !.instrumented = TRUE,
                 !.inHeader = hdr,
                 !.reqHeader = IF generate THEN HeaderSet(requestUUID) ELSE hdr,
                 !.respHeader = HeaderSet(requestUUID),
                 !.ctx = ContextWithUUID(requestUUID),
                 !.trace = <<"gauge+1">>
                           \o (IF generate THEN <<"uuid.New">> ELSE <<>>)
                           \o <<"header", "span.Start", "call">>]]
        /\ UNCHANGED <<obsVars, parseVars, opts, reqCounter, reqDuration, panicCounter, logs>>

\* the wrapped handler calls w.WriteHeader(code)
HandlerWriteHeader(c, code) ==
    /\ calls[c].pc = "handler"
    /\ calls[c].site = "http_server"
    /\ Len(calls[c].written) < MaxWrites
    /\ calls' = [calls EXCEPT ![c].rw = WriteHeader(@, code),
                              ![c].written = Append(@, code)]
    /\ UNCHANGED <<obsVars, parseVars, opts, reqGauge, reqCounter, reqDuration, panicCounter, logs, uuidCount>>

\* the wrapped handler calls w.Write(body)
HandlerWrite(c) ==
    /\ calls[c].pc = "handler"
    /\ calls[c].site = "http_server"
    /\ calls[c].rw.sent = 0
    /\ calls' = [calls EXCEPT ![c].rw = Write(@)]
    /\ UNCHANGED <<obsVars, parseVars, opts, reqGauge, reqCounter, reqDuration, panicCounter, logs, uuidCount>>

\* how an http handler ends: it returns, panics with a value, or calls
\* panic(nil), for which recover() returns nil
HandlerOutcomes == {"return", "panic", "panic_nil"}

Panicked(outcome) == outcome \in {"panic", "panic_nil"}

\* callHandlerFunc's deferred function: r := recover(); r != nil
MiddlewareRecovered(outcome) == outcome = "panic"

\* Wrap, from the end of the wrapped handler on (callHandlerFunc's deferred
\* function, the metrics, the log line, the span, the deferred calls)
MiddlewareExit(c, outcome) ==
    LET call == calls[c]
        rec == MiddlewareRecovered(outcome)
        rw == IF rec THEN WriteHeader(call.rw, StatusInternalServerError) ELSE call.rw
        level == MiddlewareLogLevel(rw.StatusCode, opts.LogInDebugLevel)
    IN  /\ call.pc = "handler"
        /\ call.site = "http_server"
        /\ panicCounter' = IF rec THEN panicCounter + 1 ELSE panicCounter
        /\ reqCounter' = Measurement(reqCounter, 1)
        /\ reqDuration' = Measurement(reqDuration, 1)
        /\ logs' = Log(IF rec THEN Log(logs, "error") ELSE logs, level)
        /\ reqGauge' = MiddlewareRelease(reqGauge, call.labels)
        /\ calls' = [calls EXCEPT ![c] =
              [call EXCEPT
                 !.pc = "done",
                 !.rw = rw,
                 !.written = IF rec THEN Append(@, StatusInternalServerError) ELSE @,
                 !.outcome = outcome,
                 !.err = "nil",
                 !.status = ResponseStatus(rw),
                 !.recorded = rw.StatusCode,
                 !.trace = DeferredSpanEnd(
                               @ \o <<IF Panicked(outcome) THEN "panicked" ELSE "return">>
                                 \o (IF rec THEN <<"log.panic", "panicCounter+1", "WriteHeader500">>
                                            ELSE <<>>)
                                 \o <<"RecordBatch", "log." \o level, "span.SetAttributes">>)
                             \o (IF reqGauge' = reqGauge THEN <<>> ELSE <<"gauge-1">>)]]
        /\ UNCHANGED <<obsVars, parseVars, opts, uuidCount>>

\* ----------------------------------------------------------- ohttp.Client.Do
\* "Make sure the request has a UUID"
ClientUUIDAlwaysNew(ctx, n) == NewUUID(n)
ClientUUIDIgnoresEmpty(ctx, n) ==
    IF ~UUIDFromContext(ctx).ok THEN NewUUID(n) ELSE UUIDFromContext(ctx).uuid
ClientUUID(ctx, n) ==
    IF ~UUIDFromContext(ctx).ok \/ UUIDFromContext(ctx).uuid = EmptyString
    THEN NewUUID(n)
    ELSE UUIDFromContext(ctx).uuid

\* the level of the request log line of the client
ClientLogLevel(statusCode, debug) ==
    IF statusCode >= 500 THEN "error"
    ELSE IF statusCode >= 400 THEN "warn"
    ELSE IF debug THEN "debug" ELSE "info"

\* Do, up to c.client.Do(req)
ClientEnter(c, method, url, ctx) ==
    LET labels == HTTPLabels("outgoing_http_requests_active", method, Route(url))
        requestUUID == ClientUUID(ctx, uuidCount)
        generate == (requestUUID = NewUUID(uuidCount))
    IN  /\ calls[c].pc = "idle"
        /\ reqGauge' = Add(reqGauge, labels, 1)
        /\ uuidCount' = IF generate THEN uuidCount + 1 ELSE uuidCount
        /\ calls' = [calls EXCEPT ![c] =
              [IdleCall EXCEPT
                 !.pc = "handler",
                 !.site = "http_client",
                 !.labels = labels,
                 !.instrumented = TRUE,
                 !.ctxIn = ctx,
                 !.ctx = ctx,
                 !.reqHeader = HeaderSet(requestUUID),
                 !.trace = <<"gauge+1">>
                           \o (IF generate THEN <<"uuid.New">> ELSE <<>>)
                           \o <<"header", "span.Start", "call">>]]
        /\ UNCHANGED <<obsVars, parseVars, opts, reqCounter, reqDuration, panicCounter, logs>>

\* what c.client.Do returns: an error, or a response with a status code
ClientResults == {[err |-> "error", status |-> 0]}
                   \cup {[err |-> "nil", status |-> code] : code \in StatusCodes}

\* Do, from the return of c.client.Do(req) on
ClientExit(c, res) ==
    LET call == calls[c]
        statusCode == IF res.err # "nil" THEN -1 ELSE res.status
        level == ClientLogLevel(statusCode, opts.LogInDebugLevel)
    IN  /\ call.pc = "handler"
        /\ call.site = "http_client"
        /\ reqCounter' = Measurement(reqCounter, 1)
        /\ reqDuration' = Measurement(reqDuration, 1)
        /\ logs' = Log(logs, level)
        /\ reqGauge' = Add(reqGauge, call.labels, -1)
        /\ calls' = [calls EXCEPT ![c] =
              [call EXCEPT
                 !.pc = "done",
                 !.outcome = "return",
                 !.wrapped = [resp |-> res.status, err |-> res.err],
                 !.resp = res.status,
                 !.err = res.err,
                 !.status = res.status,
                 !.recorded = statusCode,
                 !.trace = DeferredSpanEnd(
                               @ \o <<"return", "RecordBatch", "log." \o level, "gauge-1",
                                      "span.SetAttributes">>)]]
        /\ UNCHANGED <<obsVars, parseVars, opts, panicCounter, uuidCount>>

\* ----------------------------------- ohttp.Client.Get / Head / Post / PostForm
\* the http method each of them builds its request with (PostForm calls Post)
ShortcutMethod == [Get |-> "GET", Head |-> "HEAD", Post |-> "POST", PostForm |-> "POST"]
Shortcuts == DOMAIN ShortcutMethod
ShortcutSite == [Get |-> "Client.Get", Head |-> "Client.Head", Post |-> "Client.Post",
                 PostForm |-> "Client.PostForm"]
ShortcutSites == {ShortcutSite[fn] : fn \in Shortcuts}

\* a url http.NewRequest cannot parse
BadURL == <<"%">>

\* http.NewRequest(method, url, body): the request, or an error
NewRequest(method, url) ==
    IF url = BadURL THEN [req |-> [method |-> "", url |-> <<>>, header |-> <<>>], err |-> "error"]
    ELSE [req |-> [method |-> method, url |-> url, header |-> <<>>], err |-> "nil"]

\* Get / Head / Post / PostForm up to c.client.Do(req), or to the return of the
\* error of http.NewRequest
ShortcutEnter(c, fn, url) ==
    LET r == NewRequest(ShortcutMethod[fn], url)
    IN  /\ calls[c].pc = "idle"
        /\ calls' = [calls EXCEPT ![c] =
              IF r.err # "nil"
              THEN [IdleCall EXCEPT
                      !.pc = "done",
                      !.site = ShortcutSite[fn],
                      !.outcome = "return",
                      !.resp = 0,
                      !.err = r.err]
              ELSE [IdleCall EXCEPT
                      !.pc = "handler",
                      !.site = ShortcutSite[fn],
                      !.labels = HTTPLabels("outgoing_http_requests_active",
                                            r.req.method, Route(r.req.url)),
                      !.reqHeader = r.req.header,
                      !.trace = <<"call">>]]
        /\ UNCHANGED <<obsVars, parseVars, opts, reqGauge, reqCounter, reqDuration, panicCounter, logs, uuidCount>>

\* Get / Head / Post / PostForm: the return of c.client.Do(req)
ShortcutExit(c, res) ==
    /\ calls[c].pc = "handler"
    /\ calls[c].site \in ShortcutSites
    /\ calls' = [calls EXCEPT ![c] =
          [@ EXCEPT
             !.pc = "done",
             !.outcome = "return",
             !.wrapped = [resp |-> res.status, err |-> res.err],
             !.resp = res.status,
             !.err = res.err,
             !.status = res.status,
             !.trace = @ \o <<"return">>]]
    /\ UNCHANGED <<obsVars, parseVars, opts, reqGauge, reqCounter, reqDuration, panicCounter, logs, uuidCount>>

\* --------------------------------------------------- ogrpc.ServerInterceptor
\* how a grpc handler / invoker ends
ServerOutcomes == {"return_nil", "return_err", "panic", "panic_nil"}
ClientOutcomes == {"return_nil", "return_err"}

\* the interceptor goes on after parseEndpoint and the ExcludedMethods loop
Instrumented(fullMethod) ==
    parseEndpoint(fullMethod).ok /\ ~IsExcluded(parseEndpoint(fullMethod).e)

\* metadata.MD.Get(requestUUIDKey), then "Make sure the request has a UUID"
UnaryServerUUIDLastValue(vals, n) ==
    IF Len(vals) > 0 /\ vals[Len(vals)] # EmptyString THEN vals[Len(vals)] ELSE NewUUID(n)
UnaryServerUUID(vals, n) ==
    LET requestUUID == IF Len(vals) > 0 THEN vals[1] ELSE EmptyString
    IN  IF requestUUID = EmptyString THEN NewUUID(n) ELSE requestUUID

StreamServerUUID(vals, n) ==
    LET requestUUID == IF Len(vals) > 0 THEN vals[1] ELSE EmptyString
    IN  IF requestUUID = EmptyString THEN NewUUID(n) ELSE requestUUID

\* ServerStreamWithContext(ctx, ss): the stream with a context of its own;
\* serverStream.Context returns that context (it is never nil here)
ServerStreamWithContext(ctx, ss) == [ServerStream |-> ss, ctx |-> ctx]
StreamContext(s) == s.ctx

\* callUnaryHandler's / callStreamHandler's deferred function: recover() != nil
UnaryRecovered(outcome) == outcome = "panic"
StreamRecovered(outcome) == outcome = "panic"

\* what a handler / invoker / streamer that returns gives back: the unary
\* handler a response and the streamer a client stream on success, and an error
\* on failure (none when it panics)
WithResponse == {"grpc_server_unary", "grpc_client_stream"}

Returned(site, outcome) ==
    [resp |-> IF outcome = "return_nil" /\ site \in WithResponse THEN "response" ELSE "nil",
     err |-> IF outcome = "return_err" THEN "handler error" ELSE "nil"]

\* the error callUnaryHandler / callStreamHandler return
HandlerErrorSwallowed(returned, rec) == IF rec THEN "panic occurred" ELSE "nil"
HandlerError(returned, rec) == IF rec THEN "panic occurred" ELSE returned.err

\* the level of the request log line of the interceptors
GRPCLogLevel(success, debug) ==
    IF success THEN (IF debug THEN "debug" ELSE "info") ELSE "error"

\* an interceptor up to the call of the wrapped handler; requestUUID and ctx are
\* what the interceptor computed on the instrumented path
ServerEnter(c, site, stream, fullMethod, vals, requestUUID, ctx) ==
    LET labels == GRPCLabels("incoming_grpc_requests_active", parseEndpoint(fullMethod).e, stream)
        generate == (requestUUID = NewUUID(uuidCount))
    IN  /\ calls[c].pc = "idle"
        /\ IF Instrumented(fullMethod)
           THEN /\ reqGauge' = Add(Add(reqGauge, labels, 1), labels, -1)
                /\ uuidCount' = IF generate THEN uuidCount + 1 ELSE uuidCount
                /\ calls' = [calls EXCEPT ![c] =
                      [IdleCall EXCEPT
                         !.pc = "handler",
                         !.site = site,
                         !.fullMethod = fullMethod,
                         !.labels = labels,
                         !.instrumented = TRUE,
                         !.inHeader = vals,
                         !.reqHeader = IF generate THEN HeaderSet(requestUUID) ELSE vals,
                         !.respHeader = HeaderSet(requestUUID),
                         !.ctx = ctx,
                         !.trace = <<"gauge+1", "gauge-1">>
                                   \o (IF generate THEN <<"uuid.New">> ELSE <<>>)
                                   \o <<"header", "span.Start", "call">>]]
           ELSE /\ calls' = [calls EXCEPT ![c] =
                      [IdleCall EXCEPT
                         !.pc = "handler",
                         !.site = site,
                         !.fullMethod = fullMethod,
                         !.labels = labels,
                         !.inHeader = vals,
                         !.reqHeader = vals,
                         !.trace = <<"call">>]]
                /\ UNCHANGED <<reqGauge, uuidCount>>
        /\ UNCHANGED <<obsVars, parseVars, opts, reqCounter, reqDuration, panicCounter, logs>>

\* an interceptor from the end of the wrapped handler on
ServerExit(c, site, outcome, rec) ==
    LET call == calls[c]
        returned == Returned(site, outcome)
        err == HandlerError(returned, rec)
        level == GRPCLogLevel(err = "nil", opts.LogInDebugLevel)
        handled == <<IF Panicked(outcome) THEN "panicked" ELSE "return">>
                      \o (IF rec THEN <<"log.panic", "panicCounter+1">> ELSE <<>>)
    IN  /\ call.pc = "handler"
        /\ call.site = site
        /\ panicCounter' = IF rec THEN panicCounter + 1 ELSE panicCounter
        /\ IF call.instrumented
           THEN /\ reqCounter' = Measurement(reqCounter, 1)
                /\ reqDuration' = Measurement(reqDuration, 1)
                /\ logs' = Log(IF rec THEN Log(logs, "error") ELSE logs, level)
                /\ calls' = [calls EXCEPT ![c] =
                      [call EXCEPT
                         !.pc = "done",
                         !.outcome = outcome,
                         !.wrapped = IF Panicked(outcome) THEN NoResult ELSE returned,
                         !.resp = returned.resp,
                         !.err = err,
                         !.trace = DeferredSpanEnd(
                                       @ \o handled
                                         \o <<"RecordBatch", "log." \o level, "span.SetAttributes">>
                                         \o (IF err # "nil" THEN <<"span.SetStatus">> ELSE <<>>))]]
           ELSE /\ logs' = IF rec THEN Log(logs, "error") ELSE logs
                /\ calls' = [calls EXCEPT ![c] =
                      [call EXCEPT
                         !.pc = "done",
                         !.outcome = outcome,
                         !.wrapped = IF Panicked(outcome) THEN NoResult ELSE returned,
                         !.resp = returned.resp,
                         !.err = err,
                         !.trace = @ \o handled]]
                /\ UNCHANGED <<reqCounter, reqDuration>>
        /\ UNCHANGED <<obsVars, parseVars, opts, reqGauge, uuidCount>>

UnaryServerEnter(c, fullMethod, vals) ==
    ServerEnter(c, "grpc_server_unary", FALSE, fullMethod, vals,
                UnaryServerUUID(vals, uuidCount),
                ContextWithUUID(UnaryServerUUID(vals, uuidCount)))

UnaryServerExit(c, outcome) ==
    ServerExit(c, "grpc_server_unary", outcome, UnaryRecovered(outcome))

StreamServerEnter(c, fullMethod, vals) ==
    ServerEnter(c, "grpc_server_stream", TRUE, fullMethod, vals,
                StreamServerUUID(vals, uuidCount),
                StreamContext(ServerStreamWithContext(
                    ContextWithUUID(StreamServerUUID(vals, uuidCount)), NoUUID)))

StreamServerExit(c, outcome) ==
    ServerExit(c, "grpc_server_stream", outcome, StreamRecovered(outcome))

\* --------------------------------------------------- ogrpc.ClientInterceptor
\* "Make sure the request has a UUID"
UnaryClientUUID(ctx, n) ==
    IF ~UUIDFromContext(ctx).ok \/ UUIDFromContext(ctx).uuid = EmptyString
    THEN NewUUID(n)
    ELSE UUIDFromContext(ctx).uuid

StreamClientUUID(ctx, n) ==
    IF ~UUIDFromContext(ctx).ok \/ UUIDFromContext(ctx).uuid = EmptyString
    THEN NewUUID(n)
    ELSE UUIDFromContext(ctx).uuid

\* an interceptor up to the call of the invoker / streamer; md holds the
\* request-uuid values of the outgoing metadata of the caller's context
InvokerEnter(c, site, stream, fullMethod, ctx, md, requestUUID) ==
    LET labels == GRPCLabels("outgoing_grpc_requests_active", parseEndpoint(fullMethod).e, stream)
        generate == (requestUUID = NewUUID(uuidCount))
    IN  /\ calls[c].pc = "idle"
        /\ IF Instrumented(fullMethod)
           THEN /\ reqGauge' = Add(Add(reqGauge, labels, 1), labels, -1)
                /\ uuidCount' = IF generate THEN uuidCount + 1 ELSE uuidCount
                /\ calls' = [calls EXCEPT ![c] =
                      [IdleCall EXCEPT
                         !.pc = "handler",
                         !.site = site,
                         !.fullMethod = fullMethod,
                         !.labels = labels,
                         !.instrumented = TRUE,
                         !.ctxIn = ctx,
                         !.ctx = ctx,
                         !.reqHeader = HeaderSet(requestUUID),
                         !.trace = <<"gauge+1", "gauge-1">>
                                   \o (IF generate THEN <<"uuid.New">> ELSE <<>>)
                                   \o <<"header", "span.Start", "call">>]]
           ELSE /\ calls' = [calls EXCEPT ![c] =
                      [IdleCall EXCEPT
                         !.pc = "handler",
                         !.site = site,
                         !.fullMethod = fullMethod,
                         !.labels = labels,
                         !.ctxIn = ctx,
                         !.ctx = ctx,
                         !.reqHeader = md,
                         !.trace = <<"call">>]]
                /\ UNCHANGED <<reqGauge, uuidCount>>
        /\ UNCHANGED <<obsVars, parseVars, opts, reqCounter, reqDuration, panicCounter, logs>>

\* the error the client interceptors return: the invoker's / streamer's
InvokerError(returned) == returned.err

\* an interceptor from the return of the invoker / streamer on
InvokerExit(c, site, outcome) ==
    LET call == calls[c]
        returned == Returned(site, outcome)
        err == InvokerError(returned)
        level == GRPCLogLevel(err = "nil", opts.LogInDebugLevel)
    IN  /\ call.pc = "handler"
        /\ call.site = site
        /\ IF call.instrumented
           THEN /\ reqCounter' = Measurement(reqCounter, 1)
                /\ reqDuration' = Measurement(reqDuration, 1)
                /\ logs' = Log(logs, level)
                /\ calls' = [calls EXCEPT ![c] =
                      [call EXCEPT
                         !.pc = "done",
                         !.outcome = outcome,
                         !.wrapped = IF Panicked(outcome) THEN NoResult ELSE returned,
                         !.resp = returned.resp,
                         !.err = err,
                         !.trace = DeferredSpanEnd(
                                       @ \o <<"return", "RecordBatch", "log." \o level,
                                              "span.SetAttributes">>
                                         \o (IF err # "nil" THEN <<"span.SetStatus">> ELSE <<>>))]]
           ELSE /\ calls' = [calls EXCEPT ![c] =
                      [call EXCEPT
                         !.pc = "done",
                         !.outcome = outcome,
                         !.wrapped = IF Panicked(outcome) THEN NoResult ELSE returned,
                         !.resp = returned.resp,
                         !.err = err,
                         !.trace = @ \o <<"return">>]]
                /\ UNCHANGED <<reqCounter, reqDuration, logs>>
        /\ UNCHANGED <<obsVars, parseVars, opts, reqGauge, panicCounter, uuidCount>>

\* the caller's outgoing metadata holds no request-uuid of its own
NoMetadata == <<>>

UnaryClientEnter(c, fullMethod, ctx) ==
    InvokerEnter(c, "grpc_client_unary", FALSE, fullMethod, ctx, NoMetadata,
                 UnaryClientUUID(ctx, uuidCount))

UnaryClientExit(c, outcome) == InvokerExit(c, "grpc_client_unary", outcome)

StreamClientEnter(c, fullMethod, ctx) ==
    InvokerEnter(c, "grpc_client_stream", TRUE, fullMethod, ctx, NoMetadata,
                 StreamClientUUID(ctx, uuidCount))

StreamClientExit(c, outcome) == InvokerExit(c, "grpc_client_stream", outcome)

\* ----------------------------------------------------- observer: operations
\* New(setAsSingleton, opts...)
New(setAsSingleton, options, pipelineErr) ==
    LET c == ApplyOptions(options, configsFromEnv(env))
        o == Len(observers) + 1
    IN  /\ IF NewPanics(c, pipelineErr)
           THEN /\ result' = [Result("New", 0) EXCEPT !.panic = TRUE]
                /\ UNCHANGED <<observers, singleton, news, levelSet>>
           ELSE /\ observers' = Append(observers, NewObserver(c))
                /\ singleton' = SetSingleton(setAsSingleton, singleton, o)
                /\ news' = Append(news, [setAsSingleton |-> setAsSingleton,
                                         options |-> options, o |-> o])
                /\ levelSet' = Append(levelSet, NoLevelSet)
                /\ result' = Result("New", o)
        /\ UNCHANGED <<env, building, pipeVars, parseVars>>

\* New as the goroutines that read singleton without synchronisation see it.
\* New writes the fields of the observer and then the package variable
\* singleton, and nothing orders the two writes for a reader (the Go memory
\* model: observing the pointer does not guarantee observing the values
\* written to the fields before it), so the writes become visible in either
\* order.

\* o := &observer{name: c.name}
NewAllocate(setAsSingleton, options, pipelineErr) ==
    /\ observers' = Append(observers, EmptyObserver(ApplyOptions(options, configsFromEnv(env))))
    /\ levelSet' = Append(levelSet, NoLevelSet)
    /\ building' = building \cup {[o |-> Len(observers) + 1,
                                    setAsSingleton |-> setAsSingleton,
                                    options |-> options,
                                    pipelineErr |-> pipelineErr,
                                    initialised |-> FALSE,
                                    assigned |-> FALSE]}
    /\ UNCHANGED <<env, singleton, news, result, pipeVars, parseVars>>

\* the init calls and the no-op defaults: the fields are written, or New panics
NewInitialise(b) ==
    LET c == ApplyOptions(b.options, configsFromEnv(env))
    IN  /\ b \in building
        /\ ~b.initialised
        /\ IF NewPanics(c, b.pipelineErr)
           THEN /\ result' = [Result("New", 0) EXCEPT !.panic = TRUE]
                /\ building' = building \ {b}
                /\ UNCHANGED observers
           ELSE /\ observers' = [observers EXCEPT ![b.o] = NewObserver(c)]
                /\ building' = (building \ {b}) \cup {[b EXCEPT !.initialised = TRUE]}
                /\ UNCHANGED result
        /\ UNCHANGED <<env, singleton, news, levelSet, pipeVars, parseVars>>

\* if setAsSingleton { singleton = o }, which a New that panics never reaches
NewAssign(b) ==
    /\ b \in building
    /\ ~b.assigned
    /\ ~NewPanics(ApplyOptions(b.options, configsFromEnv(env)), b.pipelineErr)
    /\ singleton' = SetSingleton(b.setAsSingleton, singleton, b.o)
    /\ building' = (building \ {b}) \cup {[b EXCEPT !.assigned = TRUE]}
    /\ UNCHANGED <<env, observers, news, levelSet, result, pipeVars, parseVars>>

\* return o
NewReturn(b) ==
    /\ b \in building
    /\ b.initialised /\ b.assigned
    /\ news' = Append(news, [setAsSingleton |-> b.setAsSingleton, options |-> b.options,
                             o |-> b.o])
    /\ result' = Result("New", b.o)
    /\ building' = building \ {b}
    /\ UNCHANGED <<env, observers, singleton, levelSet, pipeVars, parseVars>>

\* Get(); logger is the logger its caller finds in the observer it is given
Get ==
    /\ result' = [Result("Get", singleton) EXCEPT !.logger = observers[singleton].logger]
    /\ UNCHANGED <<env, observers, singleton, news, levelSet, building, pipeVars, parseVars>>

\* LoggerFromContext(ctx)
LoggerFromContext(ctx) ==
    /\ result' = [Result("LoggerFromContext", singleton) EXCEPT
                     !.ctx = ctx,
                     !.logger = IF ctx.ok THEN ctx.logger ELSE observers[singleton].logger]
    /\ UNCHANGED <<env, observers, singleton, news, levelSet, building, pipeVars, parseVars>>

\* o.SetLogLevel(level)
SetLogLevel(o, level) ==
    /\ IF LevelPanics(observers[o])
       THEN /\ result' = [Result("SetLogLevel", o) EXCEPT !.panic = TRUE, !.level = level]
            /\ UNCHANGED observers
       ELSE /\ result' = [Result("SetLogLevel", o) EXCEPT !.level = level]
            /\ observers' = [observers EXCEPT ![o].loggerConfig.Level.level = level]
    /\ levelSet' = [levelSet EXCEPT ![o] = [set |-> TRUE, level |-> level]]
    /\ UNCHANGED <<env, singleton, news, building, pipeVars, parseVars>>

\* o.GetLogLevel()
GetLogLevel(o) ==
    /\ result' = IF LevelPanics(observers[o])
                 THEN [Result("GetLogLevel", o) EXCEPT !.panic = TRUE]
                 ELSE [Result("GetLogLevel", o) EXCEPT
                          !.level = observers[o].loggerConfig.Level.level]
    /\ UNCHANGED <<env, observers, singleton, news, levelSet, building, pipeVars, parseVars>>

\* o.Shutdown(ctx)
Shutdown(o, failing) ==
    LET st == ShutdownLoop(observers[o].shutdownFuncs,
                           [running |-> observers[o].running, called |-> <<>>, err |-> <<>>],
                           failing)
    IN  /\ observers' = [observers EXCEPT ![o].running = st.running]
        /\ result' = [Result("Shutdown", o) EXCEPT !.called = st.called, !.err = st.err,
                                                   !.failing = failing]
        /\ UNCHANGED <<env, singleton, news, levelSet, building, pipeVars, parseVars>>

\* ------------------------------------------------------------ specifications
\* Spec: one call through one wrapper, with every input
OnlyCall(c) == \A d \in DOMAIN calls \ {c} : calls[d].pc = "idle"

Next ==
    \/ \E c \in Calls, m \in Methods, u \in URLPaths, h \in HeaderValues :
          OnlyCall(c) /\ MiddlewareEnter(c, m, u, h)
    \/ \E c \in Calls, code \in StatusCodes : HandlerWriteHeader(c, code)
    \/ \E c \in Calls : HandlerWrite(c)
    \/ \E c \in Calls, o \in HandlerOutcomes : MiddlewareExit(c, o)
    \/ \E c \in Calls, m \in Methods, u \in URLPaths, x \in Contexts :
          OnlyCall(c) /\ ClientEnter(c, m, u, x)
    \/ \E c \in Calls, r \in ClientResults : ClientExit(c, r)
    \/ \E c \in Calls, fn \in Shortcuts, u \in URLPaths \cup {BadURL} :
          OnlyCall(c) /\ ShortcutEnter(c, fn, u)
    \/ \E c \in Calls, r \in ClientResults : ShortcutExit(c, r)
    \/ \E c \in Calls, f \in FullMethods, h \in HeaderValues :
          OnlyCall(c) /\ UnaryServerEnter(c, f, h)
    \/ \E c \in Calls, f \in FullMethods, h \in HeaderValues :
          OnlyCall(c) /\ StreamServerEnter(c, f, h)
    \/ \E c \in Calls, o \in ServerOutcomes : UnaryServerExit(c, o)
    \/ \E c \in Calls, o \in ServerOutcomes : StreamServerExit(c, o)
    \/ \E c \in Calls, f \in FullMethods, x \in Contexts :
          OnlyCall(c) /\ UnaryClientEnter(c, f, x)
    \/ \E c \in Calls, f \in FullMethods, x \in Contexts :
          OnlyCall(c) /\ StreamClientEnter(c, f, x)
    \/ \E c \in Calls, o \in ClientOutcomes : UnaryClientExit(c, o)
    \/ \E c \in Calls, o \in ClientOutcomes : StreamClientExit(c, o)

Spec == Init /\ [][Next]_vars

\* SpecConc: concurrent calls through the wrappers, in any interleaving; the
\* requests carry no correlation id
ConcMethods == {GetItem, Health}

NextConc ==
    \/ \E c \in Calls, m \in Methods, u \in URLPaths : MiddlewareEnter(c, m, u, <<>>)
    \/ \E c \in Calls, o \in HandlerOutcomes : MiddlewareExit(c, o)
    \/ \E c \in Calls, m \in Methods, u \in URLPaths : ClientEnter(c, m, u, NoUUID)
    \/ \E c \in Calls, r \in ClientResults : ClientExit(c, r)
    \/ \E c \in Calls, f \in ConcMethods : UnaryServerEnter(c, f, <<>>)
    \/ \E c \in Calls, f \in ConcMethods : StreamServerEnter(c, f, <<>>)
    \/ \E c \in Calls, o \in ServerOutcomes : UnaryServerExit(c, o)
    \/ \E c \in Calls, o \in ServerOutcomes : StreamServerExit(c, o)
    \/ \E c \in Calls, f \in ConcMethods : UnaryClientEnter(c, f, NoUUID)
    \/ \E c \in Calls, f \in ConcMethods : StreamClientEnter(c, f, NoUUID)
    \/ \E c \in Calls, o \in ClientOutcomes : UnaryClientExit(c, o)
    \/ \E c \in Calls, o \in ClientOutcomes : StreamClientExit(c, o)

SpecConc == Init /\ [][NextConc]_vars

\* SpecChain: a chain of calls across services.  Hop 1 is an inbound request;
\* the handler of a server hop calls out through a client wrapper with the
\* context it was given, and the request of a client hop arrives at a server
\* wrapper of the callee with the request-uuid values the client sent.
Hops == 1..MaxHops

InitChain == InitWith(Hops)

ChainURL == <<"items">>

\* hop c - 1 is waiting for hop c
Caller(c, sites) ==
    /\ c - 1 \in Hops
    /\ calls[c - 1].pc = "handler"
    /\ calls[c - 1].site \in sites

\* hop c has no call of its own in progress
Innermost(c) == (c + 1 \in Hops) => calls[c + 1].pc # "handler"

NextChain ==
    \/ \E c \in Hops, h \in HeaderValues :
          c = 1 /\ MiddlewareEnter(c, "GET", ChainURL, h)
    \/ \E c \in Hops, f \in FullMethods, h \in HeaderValues :
          c = 1 /\ UnaryServerEnter(c, f, h)
    \/ \E c \in Hops, f \in FullMethods, h \in HeaderValues :
          c = 1 /\ StreamServerEnter(c, f, h)
    \/ \E c \in Hops :
          Caller(c, ServerSites) /\ ClientEnter(c, "GET", ChainURL, calls[c - 1].ctx)
    \/ \E c \in Hops, f \in FullMethods :
          Caller(c, ServerSites) /\ UnaryClientEnter(c, f, calls[c - 1].ctx)
    \/ \E c \in Hops, f \in FullMethods :
          Caller(c, ServerSites) /\ StreamClientEnter(c, f, calls[c - 1].ctx)
    \/ \E c \in Hops :
          Caller(c, {"http_client"})
             /\ MiddlewareEnter(c, "GET", ChainURL, calls[c - 1].reqHeader)
    \/ \E c \in Hops :
          Caller(c, {"grpc_client_unary"})
             /\ UnaryServerEnter(c, calls[c - 1].fullMethod, calls[c - 1].reqHeader)
    \/ \E c \in Hops :
          Caller(c, {"grpc_client_stream"})
             /\ StreamServerEnter(c, calls[c - 1].fullMethod, calls[c - 1].reqHeader)
    \/ \E c \in Hops : Innermost(c) /\ MiddlewareExit(c, "return")
    \/ \E c \in Hops : Innermost(c) /\ ClientExit(c, [err |-> "nil", status |-> 200])
    \/ \E c \in Hops : Innermost(c) /\ UnaryServerExit(c, "return_nil")
    \/ \E c \in Hops : Innermost(c) /\ StreamServerExit(c, "return_nil")
    \/ \E c \in Hops : Innermost(c) /\ UnaryClientExit(c, "return_nil")
    \/ \E c \in Hops : Innermost(c) /\ StreamClientExit(c, "return_nil")

SpecChain == InitChain /\ [][NextChain]_vars

\* SpecNew: New and Get of the observer package, in any order, in any of the
\* environments
MaxObservers == 2

LogLevels == {DebugLevel, ErrorLevel}

InitPipeline ==
    /\ opts = [LogInDebugLevel |-> FALSE]
    /\ calls = [c \in Calls |-> IdleCall]
    /\ reqGauge = <<>>
    /\ reqCounter = 0
    /\ reqDuration = 0
    /\ panicCounter = 0
    /\ logs = [l \in Levels |-> 0]
    /\ uuidCount = 0

InitNew == InitPipeline /\ InitObserver(Envs) /\ InitParsed({GetItem})

NextNew ==
    \/ \E s \in BOOLEAN, options \in OptionLists, e \in BOOLEAN :
          Len(news) < MaxObservers /\ New(s, options, e)
    \/ Get
    \/ \E ctx \in LoggerContexts : LoggerFromContext(ctx)

SpecNew == InitNew /\ [][NextNew]_vars

\* SpecLife: the life of an observer New has returned, next to the observer of
\* init(): Get, SetLogLevel, GetLogLevel and Shutdown in any order
InitLife ==
    /\ InitPipeline
    /\ InitParsed({GetItem})
    /\ \E e \in Envs, s \in BOOLEAN, options \in OptionLists :
          /\ env = e
          /\ observers = <<InitialObserver, NewObserver(ApplyOptions(options, configsFromEnv(e)))>>
          /\ singleton = SetSingleton(s, 1, 2)
          /\ news = <<[setAsSingleton |-> s, options |-> options, o |-> 2]>>
          /\ levelSet = <<NoLevelSet, NoLevelSet>>
          /\ result = Result("New", 2)
          /\ building = {}

NextLife ==
    \/ Get
    \/ \E o \in DOMAIN observers, l \in LogLevels : SetLogLevel(o, l)
    \/ \E o \in DOMAIN observers : GetLogLevel(o)
    \/ \E o \in DOMAIN observers, failing \in SUBSET Fallible : Shutdown(o, failing)

SpecLife == InitLife /\ [][NextLife]_vars

\* SpecRace: New calls of several goroutines, up to MaxObservers of them, next
\* to goroutines that call Get and LoggerFromContext
InitRace == InitPipeline /\ InitObserver({NoEnv}) /\ InitParsed({GetItem})

NextRace ==
    \/ \E s \in BOOLEAN, options \in OptionLists, e \in BOOLEAN :
          Len(observers) <= MaxObservers /\ NewAllocate(s, options, e)
    \/ \E b \in building : NewInitialise(b)
    \/ \E b \in building : NewAssign(b)
    \/ \E b \in building : NewReturn(b)
    \/ Get
    \/ LoggerFromContext(NoLogger)

SpecRace == InitRace /\ [][NextRace]_vars

\* SpecParse: parseEndpoint applied to every name of up to MaxNameLen
\* characters over the separators and a letter
MaxNameLen == 8

NameChars == {"/", ".", "x"}

Names == UNION {[1..n -> NameChars] : n \in 0..MaxNameLen}

\* e, ok := parseEndpoint(fullMethod)
Parse ==
    /\ ~parsed.done
    /\ parsed' = [done |-> TRUE, e |-> parseEndpoint(fullName).e, ok |-> parseEndpoint(fullName).ok]
    /\ UNCHANGED <<fullName, pipeVars, obsVars>>

InitParse == InitPipeline /\ InitObserver({NoEnv}) /\ InitParsed(Names)

NextParse == Parse

SpecParse == InitParse /\ [][NextParse]_vars

\* ------------------------------------------------------------------ claims
Slots == DOMAIN calls
Started(c) == calls[c].pc \in {"handler", "done"}
Done(c) == calls[c].pc = "done"

Generated(c) == Count(calls[c].trace, "uuid.New")
RequestLogs(c) == Count(calls[c].trace, "log.debug") + Count(calls[c].trace, "log.info")
                    + Count(calls[c].trace, "log.warn") + Count(calls[c].trace, "log.error")
PanicLogs(c) == Count(calls[c].trace, "log.panic")
PanicCounts(c) == Count(calls[c].trace, "panicCounter+1")
Before(c, a, b) == Index(calls[c].trace, a) > 0 /\ Index(calls[c].trace, a) < Index(calls[c].trace, b)

\* every value of a header
Values(vals) == {vals[k] : k \in 1..Len(vals)}

\* C1: a request to the HTTP middleware whose Request-UUID header (as
\* Header.Get reads it) is absent or empty gets exactly one new non-empty id,
\* generated before the handler is called; UUIDFromContext on the handler's
\* request context returns it and the response's Request-UUID header is it.
C1_GeneratedWhenAbsent ==
    \A c \in Slots :
        (Started(c) /\ calls[c].site = "http_server"
                    /\ HeaderGet(calls[c].inHeader) = EmptyString)
        => /\ Generated(c) = 1
           /\ uuidCount = 1
           /\ Before(c, "uuid.New", "call")
           /\ UUIDFromContext(calls[c].ctx).ok
           /\ UUIDFromContext(calls[c].ctx).uuid # EmptyString
           /\ UUIDFromContext(calls[c].ctx).uuid \notin Values(calls[c].inHeader)
           /\ calls[c].respHeader = <<UUIDFromContext(calls[c].ctx).uuid>>

C1_Witness ==
    \E c \in Slots :
        /\ Done(c) /\ calls[c].site = "http_server"
        /\ calls[c].inHeader = <<EmptyString, IdB>>
        /\ calls[c].respHeader = <<NewUUID(0)>>

\* C2: a request to the HTTP middleware whose Request-UUID header value (as
\* Header.Get reads it) is a non-empty v gets no new id; UUIDFromContext in the
\* handler returns exactly v and the response's Request-UUID header is exactly v.
C2_PreservedWhenPresent ==
    \A c \in Slots :
        (Started(c) /\ calls[c].site = "http_server"
                    /\ HeaderGet(calls[c].inHeader) # EmptyString)
        => /\ Generated(c) = 0
           /\ uuidCount = 0
           /\ UUIDFromContext(calls[c].ctx) = [ok |-> TRUE, uuid |-> HeaderGet(calls[c].inHeader)]
           /\ calls[c].respHeader = <<HeaderGet(calls[c].inHeader)>>

C2_Witness ==
    \E c \in Slots :
        /\ Done(c) /\ calls[c].site = "http_server"
        /\ calls[c].inHeader = <<IdA>>
        /\ calls[c].respHeader = <<IdA>>
        /\ calls[c].ctx.uuid = IdA

\* C3: for an instrumented call of the gRPC server interceptors (unary and
\* stream) the id the handler gets from UUIDFromContext is the first
\* request-uuid value of the incoming metadata when that is non-empty, else a
\* freshly generated non-empty id; the same id is sent in the response header.
FirstValue(vals) == IF Len(vals) > 0 THEN vals[1] ELSE EmptyString

C3_ServerInterceptorUUID ==
    \A c \in Slots :
        (Started(c) /\ calls[c].site \in {"grpc_server_unary", "grpc_server_stream"}
                    /\ calls[c].instrumented)
        => /\ UUIDFromContext(calls[c].ctx).ok
           /\ UUIDFromContext(calls[c].ctx).uuid # EmptyString
           /\ calls[c].respHeader = <<UUIDFromContext(calls[c].ctx).uuid>>
           /\ IF FirstValue(calls[c].inHeader) # EmptyString
              THEN /\ UUIDFromContext(calls[c].ctx).uuid = FirstValue(calls[c].inHeader)
                   /\ Generated(c) = 0
              ELSE /\ UUIDFromContext(calls[c].ctx).uuid \notin Values(calls[c].inHeader)
                   /\ Generated(c) = 1
                   /\ Before(c, "uuid.New", "call")

C3_Witness ==
    \E c \in Slots :
        /\ Done(c) /\ calls[c].site = "grpc_server_stream" /\ calls[c].instrumented
        /\ calls[c].inHeader = <<IdA, IdB>>
        /\ calls[c].ctx.uuid = IdA

OriginalHeader == HeaderGet(calls[1].inHeader)

C5_Original ==
    \A c \in Slots :
        (c > 1 /\ Started(c))
        => /\ Generated(c) = 0
           /\ (calls[c].site \in ServerSites /\ OriginalHeader # EmptyString)
                 => UUIDFromContext(calls[c].ctx) = [ok |-> TRUE, uuid |-> OriginalHeader]
           /\ (calls[c].site \in ServerSites /\ OriginalHeader = EmptyString)
                 => /\ UUIDFromContext(calls[c].ctx).ok
                    /\ UUIDFromContext(calls[c].ctx) = UUIDFromContext(calls[1].ctx)

\* C5 (amended): the same, for chains none of whose hops so far is a gRPC
\* call with an excluded or unparseable method name.
AllInstrumented(c) == \A k \in 1..c : calls[k].instrumented

C5_PreservedAcrossHops ==
    /\ \A c \in Slots :
          (c > 1 /\ Started(c) /\ AllInstrumented(c))
          => /\ Generated(c) = 0
             /\ calls[c].site \in ServerSites
                   => /\ UUIDFromContext(calls[c].ctx).ok
                      /\ UUIDFromContext(calls[c].ctx).uuid # EmptyString
                      /\ UUIDFromContext(calls[c].ctx) = UUIDFromContext(calls[1].ctx)
                      /\ calls[c].respHeader = calls[1].respHeader
             /\ calls[c].site \in ClientSites
                   => calls[c].reqHeader = <<UUIDFromContext(calls[1].ctx).uuid>>
    /\ (Started(1) /\ calls[1].instrumented /\ OriginalHeader # EmptyString)
          => UUIDFromContext(calls[1].ctx).uuid = OriginalHeader
    /\ (\A k \in Slots : Started(k) => calls[k].instrumented)
          => uuidCount = (IF Started(1) /\ OriginalHeader = EmptyString THEN 1 ELSE 0)

C5_Witness ==
    /\ MaxHops \in Slots
    /\ \A k \in Slots : Done(k) /\ calls[k].instrumented
    /\ calls[1].inHeader = <<>>
    /\ calls[3].site = "grpc_server_unary"
    /\ calls[3].ctx = [ok |-> TRUE, uuid |-> NewUUID(0)]

\* C6 (as claimed): every request handled by the HTTP middleware or the HTTP
\* client produces exactly one request log line: error for a recorded status
\* code in 500..599, warn in 400..499, info (debug with LogInDebugLevel)
\* for every other recorded status code.
HTTPSites == {"http_server", "http_client"}
Quiet == IF opts.LogInDebugLevel THEN "log.debug" ELSE "log.info"

C6_Original ==
    \A c \in Slots :
        (Done(c) /\ calls[c].site \in HTTPSites)
        => /\ RequestLogs(c) = 1
           /\ Count(calls[c].trace,
                    IF calls[c].recorded \in 500..599 THEN "log.error"
                    ELSE IF calls[c].recorded \in 400..499 THEN "log.warn"
                    ELSE Quiet) = 1

\* C6 (amended): ... error for every recorded status code >= 500, warn in
\* 400..499, info (debug with LogInDebugLevel) for every recorded status code
\* below 400 (0 when the handler never called WriteHeader, -1 when the client's
\* call failed).
C6_LogLevelByStatus ==
    /\ \A c \in Slots :
          (Done(c) /\ calls[c].site \in HTTPSites)
          => /\ RequestLogs(c) = 1
             /\ Count(calls[c].trace,
                      IF calls[c].recorded >= 500 THEN "log.error"
                      ELSE IF calls[c].recorded \in 400..499 THEN "log.warn"
                      ELSE Quiet) = 1
             /\ logs["error"] = Count(calls[c].trace, "log.error") + PanicLogs(c)
             /\ logs["warn"] = Count(calls[c].trace, "log.warn")
             /\ logs["info"] = Count(calls[c].trace, "log.info")
             /\ logs["debug"] = Count(calls[c].trace, "log.debug")
    /\ \A c \in Slots :
          (calls[c].pc = "handler" /\ calls[c].site \in HTTPSites)
          => RequestLogs(c) = 0 /\ \A l \in Levels : logs[l] = 0

C6_Witness ==
    \E c \in Slots :
        /\ Done(c) /\ calls[c].site = "http_server"
        /\ calls[c].recorded = 600
        /\ calls[c].outcome = "return"
        /\ logs["error"] = 1

\* C7: once every call has returned (the wrapped call succeeded, returned an
\* error or, on the server side, panicked), the in-flight gauge of every label
\* set is back at its value before the calls, and every returned call has
\* released what it acquired.
NoCallInProgress == \A c \in Slots : calls[c].pc # "handler"

C7_GaugeBalanced ==
    /\ NoCallInProgress => \A l \in DOMAIN reqGauge : reqGauge[l] = 0
    /\ \A c \in Slots :
          Done(c) => /\ Count(calls[c].trace, "gauge+1") = Count(calls[c].trace, "gauge-1")
                     /\ calls[c].instrumented => calls[c].labels \in DOMAIN reqGauge
    /\ \A l \in DOMAIN reqGauge :
          /\ reqGauge[l] >= 0
          /\ reqGauge[l] <= Cardinality({c \in Slots : calls[c].pc = "handler"
                                                         /\ calls[c].labels = l})

C7_Witness ==
    /\ \A c \in Slots : Done(c) /\ calls[c].instrumented
    /\ \E c, d \in Slots :
          /\ calls[c].site = "http_server" /\ calls[c].outcome = "panic"
          /\ calls[d].site = "http_client" /\ calls[d].err = "error"
          /\ calls[c].labels[2] = calls[d].labels[2]
    /\ \A l \in DOMAIN reqGauge : reqGauge[l] = 0

\* C8 (as claimed): at every moment the gauge of a label set equals the number
\* of instrumented calls with those labels whose wrapped handler / invoker has
\* been entered and has not yet returned.
Executing(l) == {c \in Slots : calls[c].pc = "handler" /\ calls[c].instrumented
                                 /\ calls[c].labels = l}

C8_Claim ==
    \A c \in Slots :
        (Started(c) /\ calls[c].instrumented)
        => GaugeValue(reqGauge, calls[c].labels) = Cardinality(Executing(calls[c].labels))

\* C9 (as claimed): for an excluded method the gRPC interceptors only invoke
\* the wrapped handler / invoker: no gauge, counter, duration or panic metric,
\* no span, no correlation id generated or sent, no log line, whatever the
\* outcome of the wrapped call.
GRPCSites == {"grpc_server_unary", "grpc_server_stream", "grpc_client_unary", "grpc_client_stream"}

ExcludedCall(c) == Started(c) /\ calls[c].site \in GRPCSites /\ calls[c].fullMethod = Health

Untouched ==
    /\ reqGauge = <<>>
    /\ reqCounter = 0
    /\ reqDuration = 0
    /\ uuidCount = 0
    /\ \A l \in Levels \ {"error"} : logs[l] = 0

C9_Original ==
    \A c \in Slots :
        ExcludedCall(c)
        => /\ Untouched
           /\ panicCounter = 0
           /\ logs["error"] = 0
           /\ calls[c].trace \in {<<"call">>, <<"call", "return">>, <<"call", "panicked">>}
           /\ calls[c].reqHeader = calls[c].inHeader
           /\ calls[c].respHeader = <<>>
           /\ calls[c].ctx = calls[c].ctxIn

\* C9 (amended): ... it changes no gauge, request counter or duration metric,
\* starts no span, generates or sends no correlation id and writes no request
\* log line; the one thing the server interceptors still do is recover a
\* handler panic: a panic that recover() reports increments
\* handler_panics_total once and writes one "Panic occurred." error entry.
C9_ExcludedBypass ==
    \A c \in Slots :
        ExcludedCall(c)
        => /\ Untouched
           /\ calls[c].reqHeader = calls[c].inHeader
           /\ calls[c].respHeader = <<>>
           /\ calls[c].ctx = calls[c].ctxIn
           /\ IF calls[c].site \in ServerSites /\ calls[c].outcome = "panic"
              THEN /\ calls[c].trace = <<"call", "panicked", "log.panic", "panicCounter+1">>
                   /\ panicCounter = 1
                   /\ logs["error"] = 1
              ELSE /\ calls[c].trace \in {<<"call">>, <<"call", "return">>, <<"call", "panicked">>}
                   /\ panicCounter = 0
                   /\ logs["error"] = 0

C9_Witness ==
    \E c \in Slots :
        /\ Done(c) /\ calls[c].site = "grpc_server_unary" /\ calls[c].fullMethod = Health
        /\ calls[c].outcome = "panic"
        /\ panicCounter = 1

\* C10 (as claimed): a panic of a handler wrapped by Middleware.Wrap or by the
\* gRPC server interceptors never leaves the wrapper, and each such panic gives
\* exactly one increment of handler_panics_total and one error-level
\* "Panic occurred." log entry.
C10_Claim ==
    \A c \in Slots :
        (calls[c].site \in ServerSites /\ Panicked(calls[c].outcome))
        => /\ Done(c)
           /\ PanicCounts(c) = 1
           /\ PanicLogs(c) = 1
           /\ panicCounter = 1

\* C11 (as claimed): when a wrapped handler panics, the response of the HTTP
\* middleware has status 500, also when the handler had written a status code
\* or a body before it panicked, and the gRPC server interceptors return a
\* non-nil error.
C11_Claim ==
    \A c \in Slots :
        (Done(c) /\ Panicked(calls[c].outcome))
        => /\ calls[c].site = "http_server" => calls[c].status = StatusInternalServerError
           /\ calls[c].site \in {"grpc_server_unary", "grpc_server_stream"}
                 => calls[c].err # "nil"

PassThroughSites == GRPCSites \cup {"http_client"}

\* C12: whenever the wrapped call does not panic, the gRPC server and client
\* interceptors (unary and stream) and Client.Do return to their caller
\* exactly the response / stream and the error that the wrapped handler,
\* invoker, streamer or http client returned, on the unparseable, the excluded
\* and the instrumented path.
C12_PassThrough ==
    \A c \in Slots :
        (Done(c) /\ calls[c].site \in PassThroughSites /\ ~Panicked(calls[c].outcome))
        => /\ calls[c].wrapped.err # "none"
           /\ calls[c].resp = calls[c].wrapped.resp
           /\ calls[c].err = calls[c].wrapped.err

C12_Witness ==
    \E c \in Slots :
        /\ Done(c) /\ calls[c].site = "grpc_server_unary"
        /\ calls[c].fullMethod = NoPackage
        /\ calls[c].outcome = "return_err"
        /\ calls[c].err = "handler error"

\* C13 (as claimed): a request sent through Client.Get, Head, Post or PostForm
\* carries a generated Request-UUID header and passes through the
\* instrumentation of Client.Do: in-flight gauge, request counter, duration,
\* span and one request log line.
C13_Claim ==
    \A c \in Slots :
        (Started(c) /\ calls[c].site \in ShortcutSites /\ Count(calls[c].trace, "call") = 1)
        => /\ Generated(c) = 1
           /\ Len(calls[c].reqHeader) = 1
           /\ calls[c].reqHeader[1] # EmptyString
           /\ Before(c, "gauge+1", "call")
           /\ Before(c, "span.Start", "call")
           /\ Done(c) => /\ Count(calls[c].trace, "RecordBatch") = 1
                         /\ RequestLogs(c) = 1
                         /\ Count(calls[c].trace, "span.End") = 1
                         /\ reqCounter = 1
                         /\ reqDuration = 1

\* the configs New built the observer of its k-th returned call from
ConfigsOf(k) == ApplyOptions(news[k].options, configsFromEnv(env))

\* C14: in every reachable state Get() returns an observer (never nil), and
\* the logger, the meter and the tracer of every observer New or Get returns
\* are set, to the no-op implementation when the component was not enabled.
C14_NeverNil ==
    /\ singleton \in DOMAIN observers
    /\ result.op = "Get" => result.o \in DOMAIN observers
    /\ (result.op = "New" /\ ~result.panic) => result.o \in DOMAIN observers
    /\ \A o \in DOMAIN observers :
          /\ observers[o].logger # "nil"
          /\ observers[o].meter # "zero"
          /\ observers[o].tracer # "nil"
    /\ observers[1].logger = "nop" /\ observers[1].meter = "noop" /\ observers[1].tracer = "noop"
    /\ \A k \in DOMAIN news :
          /\ ~ConfigsOf(k).loggerEnabled => observers[news[k].o].logger = "nop"
          /\ (~ConfigsOf(k).prometheusEnabled /\ ~ConfigsOf(k).opentelemetryEnabled)
                => observers[news[k].o].meter = "noop"
          /\ (~ConfigsOf(k).jaegerEnabled /\ ~ConfigsOf(k).opentelemetryEnabled)
                => observers[news[k].o].tracer = "noop"

C14_Witness ==
    /\ result.op = "Get" /\ result.o = 3
    /\ env = NoEnv
    /\ news[2].options = <<>>
    /\ observers[3].logger = "nop" /\ observers[3].meter = "noop" /\ observers[3].tracer = "noop"

SingletonNews == {k \in DOMAIN news : news[k].setAsSingleton}

LastSingleton ==
    IF SingletonNews = {} THEN 1
    ELSE news[CHOOSE k \in SingletonNews : \A j \in SingletonNews : j <= k].o

\* C15: Get() returns the observer created by the most recent New call made
\* with setAsSingleton = true, or the observer of init() when there has been no
\* such call; a New call with setAsSingleton = false changes nothing of it.
C15_GetReturnsLastSingleton ==
    /\ singleton = LastSingleton
    /\ result.op = "Get" => result.o = LastSingleton

C15_Witness ==
    /\ Len(news) = 2
    /\ news[1].setAsSingleton /\ ~news[2].setAsSingleton
    /\ result.op = "Get" /\ result.o = 2

Touching(options, f) == {i \in 1..Len(options) : f \in DOMAIN options[i]}

LastTouching(options, f) ==
    CHOOSE i \in Touching(options, f) : \A j \in Touching(options, f) : j <= i

Expected(options) ==
    [f \in DOMAIN configsFromEnv(env) |->
        IF Touching(options, f) = {} THEN configsFromEnv(env)[f]
        ELSE options[LastTouching(options, f)][f]]

\* C16: for every configuration field that an Option given to New sets, the
\* observer is built from the value of the (last such) Option, whatever the
\* environment holds; a field no Option sets keeps the value derived from the
\* environment or its default.
C16_OptionsOverrideEnv ==
    \A k \in DOMAIN news :
        /\ observers[news[k].o].name = Expected(news[k].options).name
        /\ observers[news[k].o].shutdownFuncs = NewObserver(Expected(news[k].options)).shutdownFuncs
        /\ observers[news[k].o] = NewObserver(Expected(news[k].options))

C16_Witness ==
    /\ env = FullEnv
    /\ \E k \in DOMAIN news :
          /\ Len(news[k].options) = 4
          /\ observers[news[k].o].name = "my-service"
          /\ observers[news[k].o].loggerConfig.Level.level = DebugLevel
          /\ observers[news[k].o].jaegerEndpoint = <<"agent", "localhost:6831">>
          /\ observers[news[k].o].collectorAddress = "env-otel:55680"
          /\ << <<"version">>, <<"0.2.0">> >> \in observers[news[k].o].initialFields
          /\ <<<<"domain">>, <<"auth">>>> \notin observers[news[k].o].initialFields

\* the elements of a sequence
Range(s) == {s[i] : i \in 1..Len(s)}

\* the errors the callbacks of the observer return in a Shutdown in which the
\* operations of failing fail
CallbackErrors(o, failing) ==
    {ShutdownFunc(n, {}, failing).e : n \in Range(observers[o].shutdownFuncs)} \ {"nil"}

IsSubSeq(s, t) ==
    \E f \in [1..Len(s) -> 1..Len(t)] :
        /\ \A i \in 1..Len(s) : s[i] = t[f[i]]
        /\ \A i, j \in 1..Len(s) : i < j => f[i] < f[j]

\* C17: Shutdown calls every registered shutdown callback exactly once, in
\* registration order (logger, Jaeger, OpenTelemetry), also after a callback
\* has failed; it returns nil iff every callback returned nil, and otherwise
\* an error that holds the error of each failing callback.
C17_ShutdownCallsAll ==
    /\ \A o \in DOMAIN observers :
          IsSubSeq(observers[o].shutdownFuncs, <<"logger", "jaeger", "opentelemetry">>)
    /\ result.op = "Shutdown"
          => /\ result.called = observers[result.o].shutdownFuncs
             /\ (result.err = <<>>) <=> (CallbackErrors(result.o, result.failing) = {})
             /\ Range(result.err) = CallbackErrors(result.o, result.failing)
             /\ Len(result.err) = Cardinality(CallbackErrors(result.o, result.failing))

C17_Witness ==
    /\ result.op = "Shutdown"
    /\ result.called = <<"logger", "jaeger", "opentelemetry">>
    /\ result.err = <<"logger: sync failed", "otlp exporter: shutdown failed">>

\* C18 (as claimed): after Shutdown returns, every component New started for
\* the observer (logger, Jaeger exporter, OpenTelemetry trace provider,
\* OpenTelemetry exporter, metric push controller) has been flushed and
\* stopped, whether or not an earlier shutdown step reported an error; only a
\* component whose own flush / stop failed may be left.
C18_Claim ==
    result.op = "Shutdown" => observers[result.o].running \subseteq result.failing

\* C19 (as claimed): for every observer New or Get returns, SetLogLevel(l)
\* completes normally and every GetLogLevel() after it returns l, until the
\* next SetLogLevel call.
C19_Claim ==
    /\ result.op = "SetLogLevel" => ~result.panic
    /\ (result.op = "GetLogLevel" /\ levelSet[result.o].set)
          => /\ ~result.panic
             /\ result.level = levelSet[result.o].level

\* a name of the form /package.service/method: the package is made of
\* non-empty words separated by dots, the service and the method are words;
\* the last dot before the second slash ends the package
IsWord(s) == Len(s) > 0 /\ \A i \in 1..Len(s) : ~IsSeparator(s[i])

IsPackage(s) ==
    /\ Len(s) > 0
    /\ \A i \in 1..Len(s) : s[i] # "/"
    /\ s[1] # "." /\ s[Len(s)] # "."
    /\ \A i \in 1..(Len(s) - 1) : ~(s[i] = "." /\ s[i + 1] = ".")

\* the positions of the dot and of the slash that end package and service
FormCuts(s) ==
    {<<i, j>> \in (1..Len(s)) \X (1..Len(s)) :
        /\ i < j
        /\ s[1] = "/" /\ s[i] = "." /\ s[j] = "/"
        /\ IsPackage(SubSeq(s, 2, i - 1))
        /\ IsWord(SubSeq(s, i + 1, j - 1))
        /\ IsWord(SubSeq(s, j + 1, Len(s)))}

IsForm(s) == FormCuts(s) # {}

FormParts(s) ==
    LET cut == CHOOSE c \in FormCuts(s) : TRUE
    IN  [Package |-> SubSeq(s, 2, cut[1] - 1),
         Service |-> SubSeq(s, cut[1] + 1, cut[2] - 1),
         Method |-> SubSeq(s, cut[2] + 1, Len(s))]

\* C20 (as claimed): for every full method name of the form
\* /package.service/method parseEndpoint returns ok = true with Package,
\* Service and Method equal to exactly those three parts, and for every other
\* input it returns ok = false with an empty endpoint.
C20_Claim ==
    parsed.done
    => IF IsForm(fullName)
       THEN parsed.ok /\ parsed.e = FormParts(fullName)
       ELSE ~parsed.ok /\ parsed.e = NoEndpoint

\* C21: LoggerFromContext never returns nil: it returns the logger that
\* ContextWithLogger stored when the context holds one, and otherwise the
\* logger of the observer that Get() returns at the time of the call.
C21_Claim ==
    result.op = "LoggerFromContext"
        => /\ result.logger # "nil"
           /\ (result.ctx.ok /\ result.ctx.logger # "nil")
                 => result.logger = result.ctx.logger
           /\ ~result.ctx.ok
                 => result.o = LastSingleton /\ result.logger = observers[result.o].logger

\* the calls whose wrapper has recorded its measurements
Recorded == {c \in Slots : Done(c) /\ calls[c].instrumented}

\* C22: every instrumented call records exactly one request-counter increment
\* and exactly one duration observation, in one RecordBatch made after the
\* wrapped call has ended, whether it returned, returned an error or panicked
\* and was recovered; nothing is recorded while the wrapped call runs.
C22_OneMeasurementPerCall ==
    /\ reqCounter = Cardinality(Recorded)
    /\ reqDuration = Cardinality(Recorded)
    /\ \A c \in Slots :
          /\ Count(calls[c].trace, "RecordBatch") = IF c \in Recorded THEN 1 ELSE 0
          /\ c \in Recorded
                => /\ Before(c, "call", "RecordBatch")
                   /\ Before(c, "return", "RecordBatch") \/ Before(c, "panicked", "RecordBatch")

C22_Witness ==
    /\ calls[1].site = "grpc_server_unary" /\ calls[1].outcome = "panic" /\ Done(1)
    /\ calls[2].site = "http_client" /\ calls[2].err = "error" /\ Done(2)
    /\ calls[1].instrumented /\ calls[2].instrumented
    /\ reqCounter = 2 /\ reqDuration = 2

\* the events of the span of a call, in the order of the trace
SpanEvents(c) == SelectSeq(calls[c].trace, LAMBDA ev : ev \in {"span.Start", "span.SetAttributes",
                                                              "span.SetStatus", "span.End"})

\* C23: for every instrumented call exactly one span is started, before the
\* wrapped call is invoked, and it is ended exactly once, after the wrapped
\* call has ended and after the attributes and the status of the span were
\* set, on the error and the recovered-panic paths too; a call that is not
\* instrumented starts no span, and no span of a finished call is left open.
C23_SpanStartedAndEnded ==
    \A c \in Slots :
        /\ (Started(c) /\ calls[c].instrumented)
              => /\ Count(calls[c].trace, "span.Start") = 1
                 /\ Before(c, "span.Start", "call")
                 /\ Count(calls[c].trace, "span.End") = IF Done(c) THEN 1 ELSE 0
        /\ (Done(c) /\ calls[c].instrumented)
              => /\ Before(c, "return", "span.End") \/ Before(c, "panicked", "span.End")
                 /\ Before(c, "span.SetAttributes", "span.End")
                 /\ SpanEvents(c)[1] = "span.Start"
                 /\ SpanEvents(c)[Len(SpanEvents(c))] = "span.End"
                 /\ calls[c].err \notin {"nil", "none"} /\ calls[c].site \in GRPCSites
                       => Before(c, "span.SetStatus", "span.End")
        /\ ~calls[c].instrumented => SpanEvents(c) = <<>>

C23_Witness ==
    \E c \in Slots :
        /\ Done(c) /\ calls[c].instrumented
        /\ calls[c].site = "grpc_server_stream" /\ calls[c].outcome = "panic"
        /\ SpanEvents(c) = <<"span.Start", "span.SetAttributes", "span.SetStatus", "span.End">>

\* the hundreds digit of a status code
HundredsDigit(code) == (code \div 100) % 10

\* C24: responseWriter forwards every WriteHeader call, with its code, to the
\* underlying http.ResponseWriter, and records only the first code: after any
\* sequence of WriteHeader calls StatusCode is the first code passed and
\* StatusClass is the hundreds digit of that code followed by "xx".
C24_FirstStatusRecorded ==
    \A c \in Slots :
        calls[c].written # <<>>
            => /\ calls[c].rw.forwarded = calls[c].written
               /\ calls[c].rw.StatusCode = calls[c].written[1]
               /\ calls[c].rw.StatusClass = <<HundredsDigit(calls[c].written[1]), "x", "x">>

C24_Witness ==
    \E c \in Slots :
        /\ calls[c].written = <<404, 200>>
        /\ calls[c].rw.StatusCode = 404
        /\ calls[c].rw.StatusClass = <<4, "x", "x">>
        /\ calls[c].rw.forwarded = <<404, 200>>

\* the variables of the environment named OBSERVER_TAG_<NAME>, and the tag the
\* claim has each of them yield: <NAME> in lower case with the full value
TagVariables == {i \in DOMAIN env.Environ : env.Environ[i][1] = "OBSERVER_TAG_"}

TagOf(entry) ==
    << LowerTokens(SubSeq(entry, 2, FirstEquals(entry) - 1)),
       SubSeq(entry, FirstEquals(entry) + 1, Len(entry)) >>

MetadataKeys == {<<"logger">>, <<"version">>, <<"environment">>, <<"region">>}

\* C25: every environment variable OBSERVER_TAG_<NAME>=<value> yields a tag
\* whose key is <NAME> in lower case and whose value is the full <value>,
\* whatever characters it holds, and no other variable yields a tag: the tags
\* among the initial fields of a logger New builds from the environment alone
\* are exactly these.
C25_Claim ==
    \A k \in DOMAIN news :
        (observers[news[k].o].logger = "zap" /\ Touching(news[k].options, "tags") = {})
            => {f \in observers[news[k].o].initialFields : f[1] \notin MetadataKeys}
                  = {TagOf(env.Environ[i]) : i \in TagVariables}

\* the observers the finished New(true, ...) calls created
SingletonObservers == {news[k].o : k \in SingletonNews}

\* C26: when New(true, ...) runs next to Get() or LoggerFromContext() of other
\* goroutines, a reader obtains the observer installed before or the new one,
\* fully initialised (never nil, never without its logger), and once every
\* New(true, ...) call has returned Get() returns the observer one of them
\* created.
C26_Claim ==
    /\ singleton \in DOMAIN observers
    /\ (result.op \in {"Get", "LoggerFromContext"} /\ ~result.ctx.ok)
          => /\ result.o \in DOMAIN observers
             /\ result.logger # "nil"
    /\ (building = {} /\ SingletonNews # {}) => singleton \in SingletonObservers

====
